---- MODULE Spec2Model ----
(***************************************************************************)
(* Model of the tutorial notebooks of agents-towards-production:           *)
(*                                                                         *)
(*  - the Ollama notebook (basic_usage): example_1_direct_api,             *)
(*    example_2_with_parameters, example_4_conversation and the cells      *)
(*    that keep the conversation in the list `messages`;                   *)
(*  - the LlamaFirewall output-guardrail notebook: the output guardrail    *)
(*    llamafirewall_check_output and the cell that runs the agent under    *)
(*    it.                                                                  *)
(*                                                                         *)
(* A cell is split at its blocking call (the HTTP POST, the agent run):    *)
(* one action runs the statements up to and including the call, one takes  *)
(* the call's outcome and runs the rest of the cell.  The backend, the     *)
(* agent's model and the scanner are outside the repository: their         *)
(* answers are nondeterministic choices.                                   *)
(***************************************************************************)
EXTENDS Integers, Sequences, FiniteSets

VARIABLES
    \* ---- kernel of the Ollama notebook
    pc,             \* the cell (or pending call) the kernel is at
    messages,       \* the list `messages` (<< >> while the name is unbound)
    assistant_msg,  \* the name assistant_msg
    answer,         \* the name answer
    out,            \* what the cells have printed so far
    response,       \* outcome of the requests.post of the function call in
                    \* progress / last made (NoResponse while it is pending)
    calls,          \* POSTs issued by the function call in progress / last made
    sent,           \* "messages" field of the body of the last POST
    err,            \* exception that ended the run ("none" while running)
    before,         \* history variable: `messages` when the cell in progress was about
                    \* to append its user turn (examples 1 and 2: on entry)
    \* ---- kernel of the output-guardrail notebook
    gpc,            \* position in the guarded run
    context,        \* the dict `context`
    agent_output,   \* the agent's final output handed to the guardrail
    guard_out,      \* GuardrailFunctionOutput returned by the guardrail
    gresponse,      \* the name `response` of the run cell
    gout,           \* what the run cell printed
    last_trace,     \* the Trace the guardrail built for the scanner
    gerr,           \* exception that escaped the run cell
    gbefore         \* history variable: `context` when Runner.run was called

nvars == <<pc, messages, assistant_msg, answer, out, response, calls, sent, err, before>>
gvars == <<gpc, context, agent_output, last_trace, guard_out, gresponse, gout, gerr, gbefore>>
vars == <<nvars, gvars>>

(***************************************************************************)
(* Python values                                                           *)
(***************************************************************************)
None == "None"
\* A name not bound yet: of a name that holds text, of a name that holds an object.
Unbound == "Unbound"
UnboundObject == [unbound |-> TRUE]

\* Texts a model may generate.
Contents == {"reply_a", "reply_b"}

\* HTTP statuses the backend may answer with.
Statuses == {200, 400, 404, 429, 503}

\* Exceptions requests.post may raise (no timeout is passed, no try/except
\* surrounds it): the backend cannot be reached, or the user interrupts
\* the kernel while the call is pending.
PostExceptions == {"ConnectionError", "KeyboardInterrupt"}

NoResponse == [kind |-> "none"]
HttpResponse(status, content) == [kind |-> "http", status |-> status, content |-> content]

\* Every outcome of one requests.post that returns: a 200 carries generated
\* text, any other status carries none.
HttpOutcomes ==
    {HttpResponse(200, c) : c \in Contents}
        \cup {HttpResponse(s, None) : s \in Statuses \ {200}}

Turn(role, content) == [role |-> role, content |-> content]

\* list.append
ListAppend(list, item) == Append(list, item)

(***************************************************************************)
(* The three request functions, from the response on.                      *)
(***************************************************************************)
\* example_1_direct_api: what it prints.
example_1_print(r) ==
    IF r.status = 200 THEN <<"Response", r.content>> ELSE <<"Error", r.status>>

\* example_2_with_parameters: what it prints.
example_2_print(r) ==
    IF r.status = 200 THEN <<"Creative response", r.content>> ELSE <<"Error", r.status>>

\* example_4_conversation: what it returns (falls off the end, hence None,
\* on any status other than 200).
example_4_result(r) ==
    IF r.status = 200 THEN r.content ELSE None

(***************************************************************************)
(* Ollama notebook, cell by cell                                           *)
(***************************************************************************)
SystemPrompt == "You are a helpful coding assistant."
FirstQuestion == "How do I read a file in Python?"
FollowUpQuestion == "What about error handling?"

NInit ==
    /\ pc = "ex1"
    /\ messages = << >>
    /\ assistant_msg = Unbound
    /\ answer = Unbound
    /\ out = << >>
    /\ response = NoResponse
    /\ calls = 0
    /\ sent = << >>
    /\ err = "none"
    /\ before = << >>

\* An exception leaves the function and the cell: the run stops.
Raise(e) ==
    /\ pc' = "halted"
    /\ err' = e
    /\ response' = [kind |-> "exception", exc |-> e]

\* Cell "Example 1": example_1_direct_api(sys_promt, usr_promt) posts.
Ex1Begin ==
    /\ pc = "ex1"
    /\ pc' = "ex1_pending"
    /\ calls' = 1
    /\ sent' = <<Turn("system", "You are a helpful assistant."),
                 Turn("user", "What is Python?")>>
    /\ before' = messages
    /\ UNCHANGED <<messages, assistant_msg, answer, out, err>>
    /\ response' = NoResponse
    /\ UNCHANGED gvars

Ex1Return ==
    /\ pc = "ex1_pending"
    /\ \/ \E r \in HttpOutcomes :
            /\ response' = r
            /\ out' = Append(out, example_1_print(r))
            /\ pc' = "ex2"
            /\ UNCHANGED err
       \/ \E e \in PostExceptions :
            /\ Raise(e)
            /\ UNCHANGED out
    /\ UNCHANGED <<messages, assistant_msg, answer, calls, sent, before>>
    /\ UNCHANGED gvars

\* Cell "Example 2": example_2_with_parameters(0.8, 100, usr_promt) posts.
Ex2Begin ==
    /\ pc = "ex2"
    /\ pc' = "ex2_pending"
    /\ calls' = 1
    /\ sent' = <<Turn("user", "Write a creative story about a robot.")>>
    /\ before' = messages
    /\ UNCHANGED <<messages, assistant_msg, answer, out, err>>
    /\ response' = NoResponse
    /\ UNCHANGED gvars

\* Mutant of Ex2Return: any status other than 200 is answered by posting again.
Ex2Return_RetryingOnError ==
    /\ pc = "ex2_pending"
    /\ \/ \E r \in HttpOutcomes :
            /\ response' = r
            /\ IF r.status = 200
                 THEN /\ out' = Append(out, example_2_print(r))
                      /\ pc' = "ex4"
                      /\ UNCHANGED calls
                 ELSE /\ calls' = calls + 1
                      /\ UNCHANGED <<out, pc>>
            /\ calls < 3
            /\ UNCHANGED err
       \/ \E e \in PostExceptions :
            /\ Raise(e)
            /\ UNCHANGED <<out, calls>>
    /\ UNCHANGED <<messages, assistant_msg, answer, sent, before>>
    /\ UNCHANGED gvars

Ex2Return ==
    /\ pc = "ex2_pending"
    /\ \/ \E r \in HttpOutcomes :
            /\ response' = r
            /\ out' = Append(out, example_2_print(r))
            /\ pc' = "ex4"
            /\ UNCHANGED err
       \/ \E e \in PostExceptions :
            /\ Raise(e)
            /\ UNCHANGED out
    /\ UNCHANGED <<messages, assistant_msg, answer, calls, sent, before>>
    /\ UNCHANGED gvars

\* Mutant of Ex4Begin: an empty assistant turn is appended as a placeholder
\* before the call is made.
Ex4Begin_AppendsPlaceholder ==
    /\ pc = "ex4"
    /\ before' = <<Turn("system", SystemPrompt)>>
    /\ messages' = ListAppend(ListAppend(<<Turn("system", SystemPrompt)>>,
                                         Turn("user", FirstQuestion)),
                              Turn("assistant", None))
    /\ sent' = messages'
    /\ calls' = 1
    /\ pc' = "ex4_pending"
    /\ UNCHANGED <<assistant_msg, answer, out, err>>
    /\ response' = NoResponse
    /\ UNCHANGED gvars

\* Cell "Start conversation": messages = [system]; messages.append(user);
\* example_4_conversation(messages) posts.
Ex4Begin ==
    /\ pc = "ex4"
    /\ before' = <<Turn("system", SystemPrompt)>>
    /\ messages' = ListAppend(<<Turn("system", SystemPrompt)>>,
                              Turn("user", FirstQuestion))
    /\ sent' = messages'
    /\ calls' = 1
    /\ pc' = "ex4_pending"
    /\ UNCHANGED <<assistant_msg, answer, out, err>>
    /\ response' = NoResponse
    /\ UNCHANGED gvars

\* Mutant of Ex4Return: a 429 or 503 is answered by posting again, up to
\* two more times.
Ex4Return_RetryingTransient ==
    /\ pc = "ex4_pending"
    /\ \/ \E r \in HttpOutcomes :
            /\ response' = r
            /\ IF r.status \in {429, 503} /\ calls < 3
                 THEN /\ calls' = calls + 1
                      /\ UNCHANGED <<assistant_msg, out, pc>>
                 ELSE /\ assistant_msg' = example_4_result(r)
                      /\ out' = Append(out, <<"Assistant", example_4_result(r)>>)
                      /\ pc' = "add"
                      /\ UNCHANGED calls
            /\ UNCHANGED err
       \/ \E e \in PostExceptions :
            /\ Raise(e)
            /\ UNCHANGED <<assistant_msg, out, calls>>
    /\ UNCHANGED <<messages, answer, sent, before>>
    /\ UNCHANGED gvars

\* Mutant of Ex4Return: a status other than 200 takes the user turn back out
\* of the list.
Ex4Return_RollsBack ==
    /\ pc = "ex4_pending"
    /\ \/ \E r \in HttpOutcomes :
            /\ response' = r
            /\ assistant_msg' = example_4_result(r)
            /\ out' = Append(out, <<"Assistant", example_4_result(r)>>)
            /\ messages' = IF r.status = 200 THEN messages ELSE before
            /\ pc' = "add"
            /\ UNCHANGED err
       \/ \E e \in PostExceptions :
            /\ Raise(e)
            /\ UNCHANGED <<assistant_msg, out, messages>>
    /\ UNCHANGED <<answer, calls, sent, before>>
    /\ UNCHANGED gvars

\* Mutant of Ex4Return: example_4_conversation appends the reply to the list
\* it was given.
Ex4Return_AppendsReply ==
    /\ pc = "ex4_pending"
    /\ \/ \E r \in HttpOutcomes :
            /\ response' = r
            /\ assistant_msg' = example_4_result(r)
            /\ out' = Append(out, <<"Assistant", example_4_result(r)>>)
            /\ messages' = IF r.status = 200
                             THEN ListAppend(messages, Turn("assistant", r.content))
                             ELSE messages
            /\ pc' = "add"
            /\ UNCHANGED err
       \/ \E e \in PostExceptions :
            /\ Raise(e)
            /\ UNCHANGED <<assistant_msg, out, messages>>
    /\ UNCHANGED <<answer, calls, sent, before>>
    /\ UNCHANGED gvars

\* ... assistant_msg = <result>; print it.
Ex4Return ==
    /\ pc = "ex4_pending"
    /\ \/ \E r \in HttpOutcomes :
            /\ response' = r
            /\ assistant_msg' = example_4_result(r)
            /\ out' = Append(out, <<"Assistant", example_4_result(r)>>)
            /\ pc' = "add"
            /\ UNCHANGED err
       \/ \E e \in PostExceptions :
            /\ Raise(e)
            /\ UNCHANGED <<assistant_msg, out>>
    /\ UNCHANGED <<messages, answer, calls, sent, before>>
    /\ UNCHANGED gvars

\* Mutant of AddAssistant: the reply is appended under the role "system".
AddAssistant_AsSystem ==
    /\ pc = "add"
    /\ messages' = ListAppend(messages, Turn("system", assistant_msg))
    /\ pc' = "followup"
    /\ UNCHANGED <<assistant_msg, answer, out, response, calls, sent, err, before>>
    /\ UNCHANGED gvars

\* Cell "Add assistant": messages.append({"role": "assistant", "content": assistant_msg}).
AddAssistant ==
    /\ pc = "add"
    /\ messages' = ListAppend(messages, Turn("assistant", assistant_msg))
    /\ pc' = "followup"
    /\ UNCHANGED <<assistant_msg, answer, out, response, calls, sent, err, before>>
    /\ UNCHANGED gvars

\* Cell "Add follow-up question": messages.append(user);
\* example_4_conversation(messages) posts.
\* Mutant of FollowUpBegin: the follow-up question is appended twice.
FollowUpBegin_AppendsTwice ==
    /\ pc = "followup"
    /\ before' = messages
    /\ messages' = ListAppend(ListAppend(messages, Turn("user", FollowUpQuestion)),
                              Turn("user", FollowUpQuestion))
    /\ sent' = messages'
    /\ calls' = 1
    /\ pc' = "followup_pending"
    /\ UNCHANGED <<assistant_msg, answer, out, err>>
    /\ response' = NoResponse
    /\ UNCHANGED gvars

FollowUpBegin ==
    /\ pc = "followup"
    /\ before' = messages
    /\ messages' = ListAppend(messages, Turn("user", FollowUpQuestion))
    /\ sent' = messages'
    /\ calls' = 1
    /\ pc' = "followup_pending"
    /\ UNCHANGED <<assistant_msg, answer, out, err>>
    /\ response' = NoResponse
    /\ UNCHANGED gvars

\* Mutant of FollowUpReturn: an exception of the call is answered by
\* appending an empty assistant turn before it propagates.
FollowUpReturn_AppendsOnException ==
    /\ pc = "followup_pending"
    /\ \/ \E r \in HttpOutcomes :
            /\ response' = r
            /\ answer' = example_4_result(r)
            /\ out' = Append(out, <<"Follow-up", example_4_result(r)>>)
            /\ pc' = "done"
            /\ UNCHANGED <<err, messages>>
       \/ \E e \in PostExceptions :
            /\ Raise(e)
            /\ messages' = ListAppend(messages, Turn("assistant", None))
            /\ UNCHANGED <<answer, out>>
    /\ UNCHANGED <<assistant_msg, calls, sent, before>>
    /\ UNCHANGED gvars

\* ... answer = <result>; print it.
\* Mutant of FollowUpReturn: a status other than 200 is not returned to the
\* cell; the function keeps posting.
FollowUpReturn_NeverGivesUp ==
    /\ pc = "followup_pending"
    /\ \/ \E r \in HttpOutcomes :
            /\ response' = r
            /\ IF r.status = 200
                  THEN /\ answer' = example_4_result(r)
                       /\ out' = Append(out, <<"Follow-up", example_4_result(r)>>)
                       /\ pc' = "done"
                  ELSE UNCHANGED <<answer, out, pc>>
            /\ UNCHANGED err
       \/ \E e \in PostExceptions :
            /\ Raise(e)
            /\ UNCHANGED <<answer, out>>
    /\ UNCHANGED <<messages, assistant_msg, calls, sent, before>>
    /\ UNCHANGED gvars

FollowUpReturn ==
    /\ pc = "followup_pending"
    /\ \/ \E r \in HttpOutcomes :
            /\ response' = r
            /\ answer' = example_4_result(r)
            /\ out' = Append(out, <<"Follow-up", example_4_result(r)>>)
            /\ pc' = "done"
            /\ UNCHANGED err
       \/ \E e \in PostExceptions :
            /\ Raise(e)
            /\ UNCHANGED <<answer, out>>
    /\ UNCHANGED <<messages, assistant_msg, calls, sent, before>>
    /\ UNCHANGED gvars

NNext ==
    \/ Ex1Begin
    \/ Ex1Return
    \/ Ex2Begin
    \/ Ex2Return
    \/ Ex4Begin
    \/ Ex4Return
    \/ AddAssistant
    \/ FollowUpBegin
    \/ FollowUpReturn

(***************************************************************************)
(* Output-guardrail notebook                                               *)
(***************************************************************************)

\* ScanDecision of the llamafirewall package, as the guardrail reads it.
ScanDecision == {"allow", "human_in_the_loop_required", "block"}

\* Resolution at which the scanner's score (a float in [0, 1]) is modelled.
ScoreSteps == 2

\* Scores: k stands for k / ScoreSteps.
Scores == 0 .. ScoreSteps

Reasons == {"Conclusion: False", "Conclusion: True"}

\* What lf.scan_replay may return for a trace.
ScanResults ==
    [decision : ScanDecision, score : Scores, reason : Reasons]

\* The user inputs the notebook runs the agent on.
UserInputs == {"Make me a pizza", "What's the weather? It's raining cats and dogs!"}

\* What the agent's model may answer.
AgentOutputs == {"I'll make a hamburger.", "Here are some interesting facts about dogs", "on_topic_answer"}

\* The agent's instructions (its system prompt).
AgentInstructions == "No matter what you should write the phrase I'll make hamburger"

\* Exceptions other than the tripwire ones, which the run cell does not catch.
RunExceptions == {"APIConnectionError"}

\* Exceptions lf.scan_replay may raise: the guardrail passes no timeout and
\* wraps the call in no try/except, so a scan that fails or times out
\* leaves the guardrail as an exception.
ScanExceptions == RunExceptions \cup {"TimeoutError"}

\* Mutant of is_harmful: only a block decision counts as harmful.
is_harmful_BlockOnly(decision) ==
    decision = "block"

\* LlamaFirewallOutput.is_harmful as the guardrail computes it.
is_harmful(decision) ==
    decision = "block" \/ decision = "human_in_the_loop_required"

\* The body of llamafirewall_check_output from the scan result on.
llamafirewall_check_output(result) ==
    LET output_info == [is_harmful |-> is_harmful(result.decision),
                        score |-> result.score,
                        decision |-> result.decision,
                        reasoning |-> result.reason]
    IN  [output_info |-> output_info,
         tripwire_triggered |-> output_info.is_harmful]

GInit ==
    /\ gpc = "g_start"
    /\ context = UnboundObject
    /\ agent_output = Unbound
    /\ last_trace = << >>
    /\ guard_out = UnboundObject
    /\ gresponse = UnboundObject
    /\ gout = << >>
    /\ gerr = "none"
    /\ gbefore = UnboundObject

GRaise(e) ==
    /\ gpc' = "g_halted"
    /\ gerr' = e

\* Run cell: context = {"user_input": ...}; Runner.run(agent, input, context) starts.
GRunBegin ==
    /\ gpc = "g_start"
    /\ \E u \in UserInputs : context' = [user_input |-> u]
    /\ gbefore' = context'
    /\ gpc' = "g_agent"
    /\ UNCHANGED <<agent_output, last_trace, guard_out, gresponse, gout, gerr>>
    /\ UNCHANGED nvars

\* The agent's model answers (or the call to it fails).
GAgentReturn ==
    /\ gpc = "g_agent"
    /\ \/ \E o \in AgentOutputs :
            /\ agent_output' = o
            /\ gpc' = "g_guard"
            /\ UNCHANGED gerr
       \/ \E e \in RunExceptions :
            /\ GRaise(e)
            /\ UNCHANGED agent_output
    /\ UNCHANGED <<context, last_trace, guard_out, gresponse, gout, gbefore>>
    /\ UNCHANGED nvars

\* Mutant of GGuardrail: an exception of the scan is swallowed and answered
\* with an allow verdict.
GGuardrail_FailsOpen ==
    /\ gpc = "g_guard"
    /\ last_trace' = <<Turn("user", context.user_input),
                       Turn("assistant", agent_output)>>
    /\ \/ \E result \in ScanResults :
            /\ guard_out' = llamafirewall_check_output(result)
            /\ gpc' = "g_decide"
            /\ UNCHANGED gerr
       \/ \E e \in ScanExceptions :
            /\ gerr' = e
            /\ gpc' = "g_decide"
            /\ guard_out' = llamafirewall_check_output(
                                [decision |-> "allow", score |-> 0,
                                 reason |-> "Conclusion: False"])
    /\ UNCHANGED <<context, agent_output, gresponse, gout, gbefore>>
    /\ UNCHANGED nvars

\* llamafirewall_check_output(ctx, agent, output) runs on the agent's output.
GGuardrail ==
    /\ gpc = "g_guard"
    /\ last_trace' = <<Turn("user", context.user_input),
                       Turn("assistant", agent_output)>>
    /\ \/ \E result \in ScanResults :
            /\ guard_out' = llamafirewall_check_output(result)
            /\ gpc' = "g_decide"
            /\ UNCHANGED gerr
       \/ \E e \in ScanExceptions :
            /\ GRaise(e)
            /\ UNCHANGED guard_out
    /\ UNCHANGED <<context, agent_output, gresponse, gout, gbefore>>
    /\ UNCHANGED nvars

\* Mutant of GRunEnd: the run's result is bound and the candidate recorded
\* in `context` before the tripwire is looked at.
GRunEnd_KeepsCandidate ==
    /\ gpc = "g_decide"
    /\ gresponse' = [final_output |-> agent_output]
    /\ context' = [user_input |-> context.user_input, last_output |-> agent_output]
    /\ IF guard_out.tripwire_triggered
         THEN gout' = <<"Guardrail tripped - this is expected",
                        <<"Guardrail result", guard_out>>>>
         ELSE gout' = <<"Guardrail didn't trip - this is unexpected",
                        <<"Response", agent_output>>>>
    /\ gpc' = "g_done"
    /\ UNCHANGED <<agent_output, last_trace, guard_out, gerr, gbefore>>
    /\ UNCHANGED nvars

\* Mutant of GRunEnd: a tripped guardrail also clears the user input kept in
\* `context`.
GRunEnd_DropsUserInput ==
    /\ gpc = "g_decide"
    /\ IF guard_out.tripwire_triggered
         THEN /\ gout' = <<"Guardrail tripped - this is expected",
                           <<"Guardrail result", guard_out>>>>
              /\ context' = [user_input |-> None]
              /\ UNCHANGED gresponse
         ELSE /\ gresponse' = [final_output |-> agent_output]
              /\ gout' = <<"Guardrail didn't trip - this is unexpected",
                           <<"Response", agent_output>>>>
              /\ UNCHANGED context
    /\ gpc' = "g_done"
    /\ UNCHANGED <<agent_output, last_trace, guard_out, gerr, gbefore>>
    /\ UNCHANGED nvars

\* Rest of the run cell: a tripped guardrail arrives as
\* OutputGuardrailTripwireTriggered and the except branch prints its result;
\* otherwise `response` is bound to the run's result and printed.
GRunEnd ==
    /\ gpc = "g_decide"
    /\ IF guard_out.tripwire_triggered
         THEN /\ gout' = <<"Guardrail tripped - this is expected",
                           <<"Guardrail result", guard_out>>>>
              /\ UNCHANGED gresponse
         ELSE /\ gresponse' = [final_output |-> agent_output]
              /\ gout' = <<"Guardrail didn't trip - this is unexpected",
                           <<"Response", agent_output>>>>
    /\ gpc' = "g_done"
    /\ UNCHANGED <<context, agent_output, last_trace, guard_out, gerr, gbefore>>
    /\ UNCHANGED nvars

GNext ==
    \/ GRunBegin
    \/ GAgentReturn
    \/ GGuardrail
    \/ GRunEnd

Init == NInit /\ GInit

Next == NNext

\* The Ollama notebook.
Spec == Init /\ [][Next]_vars

\* The output-guardrail notebook.
GuardSpec == Init /\ [][GNext]_vars

\* The Ollama notebook run to its end: cells are executed one after the other
\* and every POST returns or raises, so an enabled step is eventually taken.
FairSpec == Spec /\ WF_vars(Next)

(***************************************************************************)
(* Vocabulary of the properties                                            *)
(***************************************************************************)
\* The error kinds of an inference call, read off the outcome of the POST.
IsHttp(r) == r.kind = "http"
Succeeded(r) == IsHttp(r) /\ r.status = 200
Unavailable(r) ==
    \/ r.kind = "exception" /\ r.exc = "ConnectionError"
    \/ IsHttp(r) /\ r.status = 503
RateLimited(r) == IsHttp(r) /\ r.status = 429
BadRequest(r) == IsHttp(r) /\ r.status \in {400, 404}

\* A call is pending.
Pending == pc \in {"ex1_pending", "ex2_pending", "ex4_pending", "followup_pending"}

\* The call in progress / last made has got its outcome.
AfterCall == response.kind # "none"

\* The pending call was interrupted by the user.
Cancelled == pc = "halted" /\ err = "KeyboardInterrupt"

\* Number of assistant turns of h that carry generated text.
CommittedTurns(h) ==
    Cardinality({i \in DOMAIN h : h[i].role = "assistant" /\ h[i].content \in Contents})

\* At most one system turn, and only at the first position.
SystemTurnFirst(h) ==
    \A i \in DOMAIN h : h[i].role = "system" => i = 1

C4_NeedsReviewFailsClosed ==
    gpc = "g_done" =>
        /\ guard_out.output_info.decision # "allow" =>
              /\ guard_out.tripwire_triggered
              /\ gresponse = UnboundObject
              /\ gout = <<"Guardrail tripped - this is expected",
                          <<"Guardrail result", guard_out>>>>
        /\ gresponse # UnboundObject => guard_out.output_info.decision = "allow"

C4_Witness ==
    /\ gpc = "g_done"
    /\ guard_out.output_info.decision = "human_in_the_loop_required"
    /\ guard_out.tripwire_triggered
    /\ gresponse = UnboundObject

\* The conversation the notebook holds for the guarded run: the agent's
\* instructions, the user input kept in `context`, and the reply of the run
\* once `response` is bound.
GuardHistory ==
    <<Turn("system", AgentInstructions)>>
        \o (IF context = UnboundObject THEN << >>
            ELSE <<Turn("user", context.user_input)>>)
        \o (IF gresponse = UnboundObject THEN << >>
            ELSE <<Turn("assistant", gresponse.final_output)>>)

\* C12: a guarded run started on a conversation that holds only the system
\* turn and rejected by the output guardrail leaves exactly the system turn
\* and the submitted user turn (the one that was scanned with the candidate)
\* and no assistant turn.
C12_RejectedRunKeepsSystemAndUser ==
    /\ gpc = "g_start" => GuardHistory = <<Turn("system", AgentInstructions)>>
    /\ (gpc = "g_done" /\ guard_out.tripwire_triggered) =>
          /\ GuardHistory = <<Turn("system", AgentInstructions), last_trace[1]>>
          /\ last_trace[1].role = "user"
          /\ last_trace[2] = Turn("assistant", agent_output)
          /\ \A i \in DOMAIN GuardHistory : GuardHistory[i].role # "assistant"

C12_Witness ==
    /\ gpc = "g_done"
    /\ guard_out.tripwire_triggered
    /\ Len(GuardHistory) = 2
    /\ GuardHistory[2] = Turn("user", "Make me a pizza")
    /\ agent_output = "I'll make a hamburger."

\* The scan of the guardrail did not complete in time.
ScanTimedOut == gerr = "TimeoutError" /\ last_trace # << >>

C2_LengthIsTwiceCommitted ==
    (pc = "followup" \/ (pc = "done" /\ answer = None)) =>
        /\ Len(messages) = 2 * CommittedTurns(messages) + 1
        /\ \A i \in DOMAIN messages :
              messages[i].role = "assistant" => messages[i].content # None

\* C5 (as claimed): a call that failed with Unavailable or RateLimited is
\* retried, so its failure is surfaced only once 1 + 2 calls have been made;
\* never more than 3 calls are made.
C5_FailureOnlyAfterBudget ==
    /\ calls <= 3
    /\ (AfterCall /\ (Unavailable(response) \/ RateLimited(response))) => calls = 3

\* C5 (amended): every request function issues exactly one POST whatever its
\* outcome (so never more than 1 + the retry bound); an Unavailable or
\* RateLimited failure is not retried but surfaced after that single call
\* (None as the conversation's result, the exception ending the run), and a
\* success is delivered after that single call.
C5_SingleCallNoRetry ==
    /\ calls <= 1
    /\ (AfterCall /\ (Unavailable(response) \/ RateLimited(response))) =>
          /\ calls = 1
          /\ pc = "add" => assistant_msg = None
          /\ pc = "done" => answer = None
          /\ pc = "halted" => err = "ConnectionError"
    /\ (AfterCall /\ Succeeded(response)) =>
          /\ calls = 1
          /\ pc = "add" => assistant_msg = response.content
          /\ pc = "done" => answer = response.content

C5_Witness ==
    /\ pc = "add"
    /\ IsHttp(response)
    /\ response.status = 503
    /\ calls = 1
    /\ assistant_msg = None

\* C6: a call answered with a BadRequest status (400, 404) is not followed
\* by another call: one POST was made, and the error is surfaced at once
\* (example_1 and example_2 print "Error: <status>", example_4_conversation
\* returns None).
C6_BadRequestNotRetried ==
    (AfterCall /\ BadRequest(response)) =>
        /\ calls = 1
        /\ pc \in {"ex2", "ex4"} => out[Len(out)] = <<"Error", response.status>>
        /\ pc = "add" => assistant_msg = None
        /\ pc = "done" => answer = None

C6_Witness ==
    /\ pc = "ex4"
    /\ BadRequest(response)
    /\ response.status = 404
    /\ calls = 1
    /\ out[Len(out)] = <<"Error", 404>>

\* C8 (as claimed): after a pending call is cancelled the history is what it
\* was before the submit.
C8_CancelRestoresHistory ==
    Cancelled => messages = before

\* C8 (amended): after a pending call of the conversation is cancelled, the
\* history is the history before the submit followed by the user turn of
\* that submit, and nothing else: no assistant turn of that submit is in it.
\* (A cancelled call of examples 1 and 2 leaves the history untouched.)
C8_CancelKeepsOnlyUserTurn ==
    Cancelled =>
        IF sent = messages /\ messages # << >>
          THEN \E q \in {FirstQuestion, FollowUpQuestion} :
                  messages = Append(before, Turn("user", q))
          ELSE messages = << >> /\ before = << >>

C8_Witness ==
    /\ Cancelled
    /\ Len(messages) = 4
    /\ messages[4] = Turn("user", FollowUpQuestion)
    /\ messages = Append(before, Turn("user", FollowUpQuestion))

AssistantTurns(h) == {i \in DOMAIN h : h[i].role = "assistant"}

\* C13 (as claimed): an assistant turn is in the history only once the
\* output guardrail has returned allow for that very candidate.
C13_AssistantOnlyAfterOutputAllow ==
    \A i \in AssistantTurns(messages) :
        /\ guard_out # UnboundObject
        /\ guard_out.output_info.decision = "allow"
        /\ last_trace[2] = messages[i]

\* C13 (amended): an assistant turn enters the history only in the "Add
\* assistant" step, after the inference call has returned, and carries what
\* the call returned; while a call is pending, and until that step, the
\* candidate is not in the history.  The conversation runs no output
\* guardrail: the append waits for no allow decision.
C13_AssistantOnlyAfterCallReturned ==
    /\ pc \in {"ex4_pending", "add"} => AssistantTurns(messages) = {}
    /\ Pending => messages \in {<< >>, sent}
    /\ pc = "followup_pending" =>
          /\ messages = Append(before, Turn("user", FollowUpQuestion))
          /\ AssistantTurns(messages) = AssistantTurns(before)
    /\ \A i \in AssistantTurns(messages) :
          /\ i = 3
          /\ assistant_msg # Unbound
          /\ messages[i] = Turn("assistant", assistant_msg)
    /\ guard_out = UnboundObject

C13_Witness ==
    /\ pc = "followup"
    /\ Succeeded(response)
    /\ messages[3] = Turn("assistant", response.content)
    /\ guard_out = UnboundObject

\* C14: every assistant turn in the history carries text generated by a
\* successful inference call; a failed call never leaves an assistant turn
\* with empty or absent content.
C14_AssistantCarriesGeneratedText ==
    \A i \in AssistantTurns(messages) :
        /\ messages[i].content # None
        /\ messages[i].content \in Contents

\* The call in progress / last made is one of the conversation (its body
\* ends with one of the two questions).
ConversationCall ==
    /\ sent # << >>
    /\ sent[Len(sent)] \in {Turn("user", FirstQuestion), Turn("user", FollowUpQuestion)}

\* The conversation's call has just failed: it was answered with a status
\* other than 200, or the backend could not be reached.
ConversationCallFailed ==
    /\ ConversationCall
    /\ AfterCall
    /\ \/ pc \in {"add", "done"} /\ ~Succeeded(response)
       \/ pc = "halted" /\ err = "ConnectionError"

C16_CallLeavesConversationUntouched ==
    (ConversationCall /\ pc \in {"ex4_pending", "followup_pending", "add", "done", "halted"}) =>
        /\ messages = sent
        /\ messages = Append(before, sent[Len(sent)])

C16_Witness ==
    /\ pc = "add"
    /\ Succeeded(response)
    /\ assistant_msg = response.content
    /\ messages = sent
    /\ Len(messages) = 2

\* A step of the conversation keeps the order of its stages: the call is made
\* from the idle cell, the reply is added only after the call has returned,
\* the follow-up starts only after the reply was added, and the run is
\* abandoned only while a call is pending.
StagesInOrder ==
    /\ pc' = "ex4_pending" => pc = "ex4"
    /\ pc' = "add" => pc = "ex4_pending"
    /\ pc' = "followup" => pc = "add"
    /\ pc' = "followup_pending" => pc = "followup"
    /\ pc' = "done" => pc = "followup_pending"
    /\ pc' = "halted" => Pending

Idle == ~Pending /\ pc # "add"

\* The turns after the optional leading system turn.
Dialogue(h) ==
    IF h # << >> /\ h[1].role = "system" THEN SubSeq(h, 2, Len(h)) ELSE h

\* User and assistant turns alternate, starting with a user turn.
Alternates(d) ==
    \A i \in DOMAIN d : d[i].role = (IF i % 2 = 1 THEN "user" ELSE "assistant")

NoAdjacentSameRole(h) ==
    \A i \in 1 .. Len(h) - 1 : h[i].role # h[i + 1].role

\* C19 (as claimed): whenever no submit is in progress the history is an
\* optional system turn followed by alternating user and assistant turns
\* that start with a user turn and end with an assistant turn.
C19_IdleHistoryEndsWithAssistant ==
    Idle =>
        /\ Alternates(Dialogue(messages))
        /\ NoAdjacentSameRole(messages)
        /\ Len(Dialogue(messages)) % 2 = 0

\* C19 (amended): the history is always an optional system turn followed by
\* alternating user and assistant turns starting with a user turn, and no two
\* adjacent turns have the same role; but when no submit is in progress it
\* ends with an assistant turn only after the first reply was added: once the
\* follow-up has been answered (its answer is printed, not appended) or a
\* call of the conversation has raised, it ends with the user turn.
C19_AlternatesButMayEndWithUser ==
    /\ Alternates(Dialogue(messages))
    /\ NoAdjacentSameRole(messages)
    /\ SystemTurnFirst(messages)
    /\ (Idle /\ pc = "followup") => messages[Len(messages)].role = "assistant"
    /\ (Idle /\ ConversationCall /\ pc \in {"done", "halted"}) =>
            messages[Len(messages)].role = "user"

C19_Witness ==
    /\ Idle
    /\ pc = "done"
    /\ answer \in Contents
    /\ [i \in 1 .. 4 |-> messages[i].role] = <<"system", "user", "assistant", "user">>

====
